---- MODULE Spec2Model ----
(***************************************************************************)
(* ooni-sync: the sync pipeline of ooni-sync.go.                           *)
(*                                                                         *)
(* processIndex (the paginator goroutine) pages through the index and      *)
(* writes download URLs to downloadURLChan; numDownloadThreads workers run *)
(* downloadFromChan; the loop in main receives temp-file names and results *)
(* and renames or finally deletes the temp files.                          *)
(*                                                                         *)
(* Granularity: one action runs a goroutine from one blocking operation    *)
(* (channel operation, network response, process exit) to the next.        *)
(***************************************************************************)
EXTENDS Integers, Sequences, FiniteSets, TLC

\* ------------------------------------------------------------------ bounds

\* Number of items of the remote listing (the largest count the server reports).
MaxItems == 2
\* const ooniAPILimit (1000 in the source), scaled down: page size and the
\* capacity of downloadURLChan.
ooniAPILimit == 1
\* const numDownloadThreads (5 in the source), scaled down.
numDownloadThreads == 2

Workers == 1..numDownloadThreads
TmpIds == 1..MaxItems

Min(a, b) == IF a < b THEN a ELSE b
Max(a, b) == IF a > b THEN a ELSE b
CeilDiv(a, b) == (a + b - 1) \div b

\* ------------------------------------------------------------- the listing

\* Download URLs an index may list, with what url.Parse makes of each: ok (no
\* parse error), the elements of u.Path, and whether the path ends in a slash.
URLTable ==
  << [url |-> "http://h/b",   ok |-> TRUE,  path |-> <<"b">>,      slash |-> FALSE],
     [url |-> "http://h/a/",  ok |-> TRUE,  path |-> <<"a">>,      slash |-> TRUE],
     [url |-> "http://h/d/a", ok |-> TRUE,  path |-> <<"d", "a">>, slash |-> FALSE],
     [url |-> "http://h/a",   ok |-> TRUE,  path |-> <<"a">>,      slash |-> FALSE],
     [url |-> "http://h",     ok |-> TRUE,  path |-> <<>>,         slash |-> FALSE],
     [url |-> "http://h/%zz", ok |-> FALSE, path |-> <<>>,         slash |-> FALSE] >>

URLs == {URLTable[i].url : i \in 1..Len(URLTable)}

\* The remote listings considered: MaxItems consecutive URLs of the table,
\* from its first entry (items with different names, one of them with a
\* trailing slash) or from its third (items with the same name).
ListingFrom(s) == [i \in 1..MaxItems |-> URLTable[((s + i - 2) % Len(URLTable)) + 1].url]
Listings == {ListingFrom(s) : s \in {1, 3}}

urlParse(u) == CHOOSE e \in {URLTable[i] : i \in 1..Len(URLTable)} : e.url = u

\* path.Base: trailing slashes are removed and the last element is returned;
\* "." for an empty path, "/" for a path of slashes only.
pathBase(p, slash) ==
  IF Len(p) = 0 THEN (IF slash THEN "/" ELSE ".") ELSE p[Len(p)]

\* filepath.Join(outputDirectory, base): a name inside the output directory;
\* joining "." or "/" gives the output directory itself, written ".".
filepathJoin(base) == IF base \in {".", "/"} THEN "." ELSE base

\* r.LocalFilename (outputExtension is "", the default).
LocalFilename(u) == filepathJoin(pathBase(urlParse(u).path, urlParse(u).slash))

\* The names of regular files in the output directory.
FinalNames == {LocalFilename(u) : u \in {v \in URLs : urlParse(v).ok}} \ {"."}

\* ------------------------------------------------------------------- state

VARIABLES
  listing,          \* the remote listing: position -> download URL
  \* processIndex
  ppc,              \* "fetch" | "emit" | "done" | "failed"
  offset,           \* var offset uint
  pending,          \* results of the current page not yet written to the channel
  lastPage,         \* the latest page response, with the offset requested and the error
  requests,         \* history: number of page requests issued
  received,         \* history: number of items of the pages accepted so far
  shortPage,        \* history: a page other than the last had fewer than ooniAPILimit items
  emitted,          \* history: every URL written to downloadURLChan, in order
  \* downloadURLChan
  downloadURLChan,  \* buffered contents
  urlClosed,        \* close(downloadURLChan) was called
  \* downloadFromChan, one per worker
  wpc,              \* "idle" | "notify" | "xfer" | "send" | "done"
  wres,             \* the *result being built or sent
  wtmp,             \* the temp file of the current download (0: none)
  \* main
  cpc,              \* "select" | "handling" | "cleanup" | "exited"
  cur,              \* the result received from resultChan, being handled
  tmpFilenames,     \* map[string]struct{}
  numErrors,
  signalFlag,
  toSweep,          \* entries of tmpFilenames the cleanup range has yet to visit
  resultClosed,     \* close(resultChan) was called
  progress,         \* progressCounter {n, total}
  \* the file system (output directory)
  final,            \* final name -> "absent" | "old" | "empty" | "partial" | "complete"
  tmpfile,          \* temp id -> "none" | "empty" | "partial" | "complete" | "renamed" | "removed"
  nextTmp,          \* next fresh temp id
  \* the process
  exitCode,         \* -1 while running, else the exit status
  exitCause,        \* "none" | "protocol" | "main"
  \* history
  handled,          \* <<URL, outcome>> -> number of results handled by main
  started,          \* temp ids whose transfer (network I/O) has started
  delCount,         \* temp id -> number of os.Remove attempts
  sigDropped,       \* a SIGINT arrived while main was handling a result, and was lost
  lineTotal,        \* the total shown by the latest progress line printed
  tmpName,          \* temp id -> the local name it was created for ("" if none yet)
  \* successive runs of the program on one directory
  run,
  firstExit,        \* exit status of the first run (-1 during it)
  count1            \* the count of the listing a second run is served

pvars == <<ppc, offset, pending, lastPage, requests, received, shortPage, emitted>>
qvars == <<downloadURLChan, urlClosed>>
wvars == <<wpc, wres, wtmp>>
cvars == <<cpc, cur, tmpFilenames, numErrors, signalFlag, toSweep>>
fvars == <<final, tmpfile, nextTmp>>
evars == <<exitCode, exitCause>>
hvars == <<handled, started, delCount, sigDropped, lineTotal, tmpName>>
rvars == <<listing, run, firstExit, count1>>

vars == <<pvars, qvars, wvars, cvars, resultClosed, progress, fvars, evars, hvars, rvars>>

\* No page response yet.
NoPage == [limit |-> 0, offset |-> 0, count |-> 0, n |-> 0, req |-> 0, err |-> "none"]

\* type result struct
NoResult == [URL |-> "", LocalFilename |-> "", TmpFilename |-> 0, Exists |-> FALSE, Err |-> "nil"]

Running == exitCode = -1

\* A second run: the remote listing is unchanged and the server and the file
\* system answer without faults (no fetch error, no inconsistent page, no
\* os.Stat error).
Replay == run > 1

\* ------------------------------------------------------------ processIndex

\* Variant of pageCheck: a page without results is accepted whatever its count.
pageCheckNoZero(limit, respOffset, count, numResults, reqOffset) ==
  IF limit # ooniAPILimit THEN "limit"
  ELSE IF reqOffset # respOffset THEN "offset"
  ELSE "nil"

\* Variant of pageCheck: the returned offset is not compared with the request.
pageCheckNoOffset(limit, respOffset, count, numResults, reqOffset) ==
  IF limit # ooniAPILimit THEN "limit"
  ELSE IF count > 0 /\ numResults = 0 THEN "zero results"
  ELSE "nil"

\* The sanity checks on a page's metadata: the error returned, "nil" if none.
pageCheck(limit, respOffset, count, numResults, reqOffset) ==
  IF limit # ooniAPILimit THEN "limit"
  ELSE IF reqOffset # respOffset THEN "offset"
  ELSE IF count > 0 /\ numResults = 0 THEN "zero results"
  ELSE "nil"

\* offset += uint(len(indexPage.Results))
advance(off, numResults) == off + numResults

\* Variant of offsetExceeds: the offset is not compared with the count.
offsetNeverExceeds(off, count) == FALSE

\* if offset > indexPage.Metadata.Count
offsetExceeds(off, count) == off > count

\* Variant of allDone: the loop ends one item early.
allDoneOffByOne(off, count) == off + 1 >= count

\* if offset == indexPage.Metadata.Count { break }
allDone(off, count) == off = count

\* The download URLs of the items at positions off+1 .. off+n of the listing.
pageResults(off, n) == [i \in 1..n |-> listing[off + i]]

\* The page the server answers with when asked for `off`: up to a page of the
\* listing's items from that position with any count, or a page whose limit or
\* offset is not the requested one.  In a later run against an unchanged
\* listing the count is the listing's and every page carries items.
ServerPages(off) ==
  LET nmax == Min(ooniAPILimit, MaxItems - off)
      good == [limit : {ooniAPILimit}, offset : {off}, count : 0..MaxItems, n : 0..nmax]
      bad == {[limit |-> ooniAPILimit + 1, offset |-> off, count |-> MaxItems, n |-> nmax],
              [limit |-> ooniAPILimit, offset |-> off + 1, count |-> MaxItems, n |-> nmax]}
  IN IF Replay
     THEN {pg \in good : pg.count = count1 /\ off + pg.n <= count1
                         /\ (pg.n = 0 => count1 = 0)}
     ELSE good \cup bad

\* os.Exit(code): the process ends and every goroutine with it.
osExit(code, cause) ==
  /\ exitCode' = code
  /\ exitCause' = cause

\* fetchIndexPage fails (network error, status other than 200, bad JSON):
\* processIndex returns the error and the goroutine calls os.Exit(1).
PFetchError ==
  /\ Running /\ ppc = "fetch"
  /\ ~Replay
  /\ osExit(1, "protocol")
  /\ lastPage' = [NoPage EXCEPT !.req = offset, !.err = "fetch"]
  /\ requests' = requests + 1
  /\ UNCHANGED <<ppc, offset, pending, received, shortPage, emitted, qvars, wvars, cvars, resultClosed,
                 progress, fvars, hvars, rvars>>

\* One iteration of the loop of processIndex up to the first channel write.
\* An error found before progress.total is written ends the process in the
\* same step: processIndex has written nothing the other goroutines can see
\* since its request.  The error found after it (offset exceeds count) leaves
\* the goroutine on its way to os.Exit, with the new total stored.
PFetch ==
  /\ Running /\ ppc = "fetch"
  /\ \E pg \in ServerPages(offset) :
       LET chk == pageCheck(pg.limit, pg.offset, pg.count, pg.n, offset)
           off2 == advance(offset, pg.n)
           err == IF chk # "nil" THEN chk
                  ELSE IF offsetExceeds(off2, pg.count) THEN "offset exceeds count"
                  ELSE "nil"
       IN /\ lastPage' = [limit |-> pg.limit, offset |-> pg.offset, count |-> pg.count,
                          n |-> pg.n, req |-> offset, err |-> err]
          /\ requests' = requests + 1
          /\ received' = IF err = "nil" THEN received + pg.n ELSE received
          /\ shortPage' = (shortPage \/ (err = "nil" /\ pg.n < ooniAPILimit
                                        /\ offset + pg.n # pg.count))
          /\ progress' = IF chk = "nil" THEN [progress EXCEPT !.total = pg.count]
                         ELSE progress
          /\ offset' = IF chk = "nil" THEN off2 ELSE offset
          /\ IF chk # "nil"
             THEN /\ osExit(1, "protocol")
                  /\ UNCHANGED <<ppc, pending, urlClosed>>
             ELSE IF err # "nil"
             THEN /\ ppc' = "failed"
                  /\ UNCHANGED <<evars, pending, urlClosed>>
             ELSE /\ UNCHANGED evars
                  /\ pending' = pageResults(offset, pg.n)
                  /\ IF pg.n = 0
                     THEN /\ ppc' = IF allDone(off2, pg.count) THEN "done" ELSE "fetch"
                          /\ urlClosed' = allDone(off2, pg.count)
                     ELSE /\ ppc' = "emit"
                          /\ UNCHANGED urlClosed
  /\ UNCHANGED <<emitted, downloadURLChan, wvars, cvars, resultClosed, fvars, hvars, rvars>>

\* processIndex has returned the error "offset exceeds count": the goroutine
\* prints it and calls os.Exit(1).
PFail ==
  /\ Running /\ ppc = "failed"
  /\ osExit(1, "protocol")
  /\ UNCHANGED <<pvars, qvars, wvars, cvars, resultClosed, progress, fvars, hvars, rvars>>

\* Variant of canSend: a send on downloadURLChan never blocks.
canSendAlways(q) == TRUE

\* A send on downloadURLChan (make(chan string, ooniAPILimit)) goes through
\* when the buffer has room, and blocks otherwise.
canSend(q) == Len(q) < ooniAPILimit

\* downloadURLChan <- result.DownloadURL; after the page's last URL, leave the
\* loop and close the channel if offset == count, else fetch the next page.
PEmit ==
  /\ Running /\ ppc = "emit"
  /\ canSend(downloadURLChan)
  /\ downloadURLChan' = Append(downloadURLChan, Head(pending))
  /\ emitted' = Append(emitted, Head(pending))
  /\ pending' = Tail(pending)
  /\ IF Len(pending) = 1
     THEN LET count == lastPage.count
          IN /\ ppc' = IF allDone(offset, count) THEN "done" ELSE "fetch"
             /\ urlClosed' = allDone(offset, count)
     ELSE UNCHANGED <<ppc, urlClosed>>
  /\ UNCHANGED <<offset, lastPage, requests, received, shortPage, wvars, cvars,
                 resultClosed, progress, fvars, evars, hvars, rvars>>

\* ------------------------------------------------- workers (downloadFromChan)

\* Variant of statFinds: the existence check never finds the local file.
statNeverFinds(name) == FALSE

\* os.Stat(r.LocalFilename) finds a file ("." is the output directory itself).
statFinds(name) == IF name = "." THEN TRUE ELSE final[name] # "absent"

\* Variant of downloadErr: the outcome of the transfer is not checked.
downloadErrIgnored(outcome) == "nil"

\* The error downloadToTmpFile returns for an outcome of the transfer, once the
\* temp file exists.  downloadFilter is identityFilter (the program runs without
\* -xz) and never fails; "fail" is an error of http.Get, a status other than
\* 200, or an error of io.Copy or of closing the body or the file.
downloadErr(outcome) == IF outcome = "ok" THEN "nil" ELSE "download"

\* A worker takes a URL from downloadURLChan and runs maybeDownload up to its
\* first channel write: url.Parse, os.Stat, ioutil.TempFile.  The workers run
\* the same code and an idle one holds no state, so which of the idle workers
\* receives the URL makes no difference: it is the first of them.
WStart(w) ==
  /\ Running /\ wpc[w] = "idle"
  /\ \A v \in Workers : v < w => wpc[v] # "idle"
  /\ downloadURLChan # <<>>
  /\ LET u == Head(downloadURLChan)
         r0 == [NoResult EXCEPT !.URL = u]
         r1 == [r0 EXCEPT !.LocalFilename = LocalFilename(u)]
     IN /\ downloadURLChan' = Tail(downloadURLChan)
        /\ IF ~urlParse(u).ok
           THEN /\ wres' = [wres EXCEPT ![w] = [r0 EXCEPT !.Err = "parse"]]
                /\ wpc' = [wpc EXCEPT ![w] = "send"]
                /\ UNCHANGED <<wtmp, fvars>>
           ELSE \/ \* os.Stat fails with an error other than "does not exist"
                   /\ ~Replay
                   /\ wres' = [wres EXCEPT ![w] = [r1 EXCEPT !.Err = "stat"]]
                   /\ wpc' = [wpc EXCEPT ![w] = "send"]
                   /\ UNCHANGED <<wtmp, fvars>>
                \/ /\ statFinds(r1.LocalFilename)
                   /\ wres' = [wres EXCEPT ![w] = [r1 EXCEPT !.Exists = TRUE]]
                   /\ wpc' = [wpc EXCEPT ![w] = "send"]
                   /\ UNCHANGED <<wtmp, fvars>>
                \/ \* ioutil.TempFile fails
                   /\ ~statFinds(r1.LocalFilename)
                   /\ wres' = [wres EXCEPT ![w] = [r1 EXCEPT !.Err = "tmpfile"]]
                   /\ wpc' = [wpc EXCEPT ![w] = "send"]
                   /\ UNCHANGED <<wtmp, fvars>>
                \/ \* ioutil.TempFile creates a fresh, empty temp file
                   /\ ~statFinds(r1.LocalFilename)
                   /\ wres' = [wres EXCEPT ![w] = r1]
                   /\ wtmp' = [wtmp EXCEPT ![w] = nextTmp]
                   /\ tmpfile' = [tmpfile EXCEPT ![nextTmp] = "empty"]
                   /\ nextTmp' = nextTmp + 1
                   /\ wpc' = [wpc EXCEPT ![w] = "notify"]
                   /\ UNCHANGED final
        /\ tmpName' = IF nextTmp' # nextTmp
                      THEN [tmpName EXCEPT ![nextTmp] = r1.LocalFilename]
                      ELSE tmpName
  /\ UNCHANGED <<pvars, urlClosed, cvars, resultClosed, progress, evars, handled,
                 started, delCount, sigDropped, lineTotal, rvars>>

\* Variant of Notice: the worker goes on to the transfer without writing the
\* name of its temp file to tmpFilenameChan.
NoticeSkipped(w) ==
  /\ Running /\ wpc[w] = "notify"
  /\ wpc' = [wpc EXCEPT ![w] = "xfer"]
  /\ UNCHANGED <<pvars, qvars, wres, wtmp, cvars, resultClosed, progress, fvars, evars,
                 hvars, rvars>>

\* Variant of Notice: the select of main has no case for tmpFilenameChan.
NoticeNever(w) ==
  /\ FALSE
  /\ UNCHANGED vars

\* tmpFilenameChan <- tmpfile.Name(), received by the select of main:
\* tmpFilenames[tmpFilename] = struct{}{}
Notice(w) ==
  /\ Running /\ wpc[w] = "notify" /\ cpc = "select"
  /\ tmpFilenames' = tmpFilenames \cup {wtmp[w]}
  /\ wpc' = [wpc EXCEPT ![w] = "xfer"]
  /\ UNCHANGED <<pvars, qvars, wres, wtmp, cpc, cur, numErrors, signalFlag, toSweep,
                 resultClosed, progress, fvars, evars, hvars, rvars>>

\* Variant of written: the downloader deletes its temp file when the transfer fails.
writtenOrRemoved(outcome) == IF outcome = "ok" THEN "complete" ELSE "removed"

\* What a transfer leaves in the temp file: the whole body, or part of it.
written(outcome) == IF outcome = "ok" THEN "complete" ELSE "partial"

\* The rest of downloadToTmpFile: downloadToWriteCloser and w.Close(); returns
\* (tmpfile.Name(), err).
WDownload(w) ==
  /\ Running /\ wpc[w] = "xfer"
  /\ \E outcome \in {"ok", "fail"} :
       /\ wres' = [wres EXCEPT ![w] =
                     [@ EXCEPT !.TmpFilename = wtmp[w], !.Err = downloadErr(outcome)]]
       /\ tmpfile' = IF tmpfile[wtmp[w]] = "removed" THEN tmpfile
                     ELSE [tmpfile EXCEPT ![wtmp[w]] = written(outcome)]
  /\ started' = started \cup {wtmp[w]}
  /\ wpc' = [wpc EXCEPT ![w] = "send"]
  /\ UNCHANGED <<pvars, qvars, wtmp, cvars, resultClosed, progress, final, nextTmp,
                 evars, handled, delCount, sigDropped, lineTotal, tmpName, rvars>>

\* resultChan <- maybeDownload(...), received by the select of main.
Result(w) ==
  /\ Running /\ wpc[w] = "send" /\ cpc = "select"
  /\ cur' = wres[w]
  /\ cpc' = "handling"
  /\ wpc' = [wpc EXCEPT ![w] = "idle"]
  /\ wres' = [wres EXCEPT ![w] = NoResult]
  /\ wtmp' = [wtmp EXCEPT ![w] = 0]
  /\ UNCHANGED <<pvars, qvars, tmpFilenames, numErrors, signalFlag, toSweep,
                 resultClosed, progress, fvars, evars, hvars, rvars>>

\* Variant of WDone: the worker returns as soon as it finds the channel empty,
\* closed or not.
WDoneEarly(w) ==
  /\ Running /\ wpc[w] = "idle"
  /\ downloadURLChan = <<>>
  /\ wpc' = [wpc EXCEPT ![w] = "done"]
  /\ UNCHANGED <<pvars, qvars, wres, wtmp, cvars, resultClosed, progress, fvars, evars,
                 hvars, rvars>>

\* The range over downloadURLChan ends: the channel is closed and empty.
\* downloadFromChan returns and the goroutine calls wg.Done().
WDone(w) ==
  /\ Running /\ wpc[w] = "idle"
  /\ downloadURLChan = <<>> /\ urlClosed
  /\ wpc' = [wpc EXCEPT ![w] = "done"]
  /\ UNCHANGED <<pvars, qvars, wres, wtmp, cvars, resultClosed, progress, fvars, evars,
                 hvars, rvars>>

\* Variant of CloseResults: resultChan is closed as soon as downloadURLChan
\* is, without waiting for the workers.
CloseResultsEarly ==
  /\ Running /\ ~resultClosed
  /\ urlClosed
  /\ resultClosed' = TRUE
  /\ UNCHANGED <<pvars, qvars, wvars, cvars, progress, fvars, evars, hvars, rvars>>

\* wg.Wait() returns once every worker has called wg.Done(); close(resultChan).
CloseResults ==
  /\ Running /\ ~resultClosed
  /\ \A w \in Workers : wpc[w] = "done"
  /\ resultClosed' = TRUE
  /\ UNCHANGED <<pvars, qvars, wvars, cvars, progress, fvars, evars, hvars, rvars>>

\* --------------------------------------------------------------------- main

\* Which branch of the result case handles r: r.Err != nil, r.Exists, else rename.
handleKind(r) ==
  IF r.Err # "nil" THEN "error"
  ELSE IF r.Exists THEN "exists"
  ELSE "rename"

\* logOK, logExists, logError: progress.n += 1 (and a line is printed).
logLine(p) == [p EXCEPT !.n = @ + 1]

\* History: one more result for URL u was handled with this outcome.
Outcomes == {"error", "exists", "rename failed", "ok"}
record(h, u, outcome) == [h EXCEPT ![<<u, outcome>>] = @ + 1]

\* Variant of addError: the error is logged but not counted.
addErrorNot(n) == n

\* numErrors += 1
addError(n) == n + 1

\* Variant of untrack: the temp file stays in the map after its rename.
untrackNot(names, t) == names

\* delete(tmpFilenames, r.TmpFilename)
untrack(names, t) == names \ {t}

\* The body of `case r, ok := <-resultChan` for a received result.
HandleResult ==
  /\ Running /\ cpc = "handling"
  /\ LET kind == handleKind(cur)
     IN \/ /\ kind = "error"
           /\ numErrors' = addError(numErrors)
           /\ handled' = record(handled, cur.URL, "error")
           /\ UNCHANGED <<tmpFilenames, fvars>>
        \/ /\ kind = "exists"
           /\ handled' = record(handled, cur.URL, "exists")
           /\ UNCHANGED <<tmpFilenames, numErrors, fvars>>
        \/ \* os.Rename fails
           /\ kind = "rename"
           /\ numErrors' = addError(numErrors)
           /\ handled' = record(handled, cur.URL, "rename failed")
           /\ UNCHANGED <<tmpFilenames, fvars>>
        \/ \* os.Rename succeeds: the temp file takes the final name
           /\ kind = "rename"
           /\ final' = [final EXCEPT ![cur.LocalFilename] = tmpfile[cur.TmpFilename]]
           /\ tmpfile' = [tmpfile EXCEPT ![cur.TmpFilename] = "renamed"]
           /\ tmpFilenames' = untrack(tmpFilenames, cur.TmpFilename)
           /\ handled' = record(handled, cur.URL, "ok")
           /\ UNCHANGED <<numErrors, nextTmp>>
  /\ progress' = logLine(progress)
  /\ lineTotal' = progress.total
  /\ cur' = NoResult
  /\ cpc' = "select"
  /\ UNCHANGED <<pvars, qvars, wvars, signalFlag, toSweep, resultClosed, evars,
                 started, delCount, sigDropped, tmpName, rvars>>

\* `case r, ok := <-resultChan` with ok false: break loop.
ResultsClosed ==
  /\ Running /\ cpc = "select" /\ resultClosed
  /\ cpc' = "cleanup"
  /\ toSweep' = tmpFilenames
  /\ UNCHANGED <<pvars, qvars, wvars, cur, tmpFilenames, numErrors, signalFlag,
                 resultClosed, progress, fvars, evars, hvars, rvars>>

\* Variant of Interrupt: the signal is noted and the loop goes on.
InterruptContinue ==
  /\ Running /\ cpc = "select" /\ ~signalFlag
  /\ signalFlag' = TRUE
  /\ UNCHANGED <<pvars, qvars, wvars, cpc, cur, tmpFilenames, numErrors, toSweep,
                 resultClosed, progress, fvars, evars, hvars, rvars>>

\* SIGINT while main waits in the select: `case <-sigChan`, break loop.
Interrupt ==
  /\ Running /\ cpc = "select"
  /\ signalFlag' = TRUE
  /\ cpc' = "cleanup"
  /\ toSweep' = tmpFilenames
  /\ UNCHANGED <<pvars, qvars, wvars, cur, tmpFilenames, numErrors, resultClosed,
                 progress, fvars, evars, hvars, rvars>>

\* SIGINT while main is handling a result, not waiting in the select: sigChan
\* is unbuffered and package signal does not block sending to it, so the
\* signal is lost and the loop goes on.  (A SIGINT during the cleanup is lost
\* as well; the loop has ended by then and nothing records it.)
InterruptDropped ==
  /\ Running /\ cpc = "handling"
  /\ ~sigDropped
  /\ sigDropped' = TRUE
  /\ UNCHANGED <<pvars, qvars, wvars, cvars, resultClosed, progress, fvars, evars,
                 handled, started, delCount, lineTotal, tmpName, rvars>>

\* Variant of Sweep: a deletion that fails ends the cleanup range.
SweepAbortOnError ==
  /\ Running /\ cpc = "cleanup"
  /\ \E t \in toSweep :
       /\ delCount' = [delCount EXCEPT ![t] = @ + 1]
       /\ \/ /\ tmpfile' = [tmpfile EXCEPT ![t] = "removed"]
             /\ toSweep' = toSweep \ {t}
             /\ UNCHANGED numErrors
          \/ /\ numErrors' = numErrors + 1
             /\ toSweep' = {}
             /\ UNCHANGED tmpfile
  /\ UNCHANGED <<pvars, qvars, wvars, cpc, cur, tmpFilenames, signalFlag, resultClosed,
                 progress, final, nextTmp, evars, handled, started, sigDropped,
                 lineTotal, tmpName, rvars>>

\* One iteration of the cleanup range over tmpFilenames: os.Remove, which may fail.
Sweep ==
  /\ Running /\ cpc = "cleanup"
  /\ \E t \in toSweep :
       /\ toSweep' = toSweep \ {t}
       /\ delCount' = [delCount EXCEPT ![t] = @ + 1]
       /\ \/ /\ tmpfile' = [tmpfile EXCEPT ![t] = "removed"]
             /\ UNCHANGED numErrors
          \/ /\ numErrors' = numErrors + 1
             /\ UNCHANGED tmpfile
  /\ UNCHANGED <<pvars, qvars, wvars, cpc, cur, tmpFilenames, signalFlag, resultClosed,
                 progress, final, nextTmp, evars, handled, started, sigDropped,
                 lineTotal, tmpName, rvars>>

\* The exit status main ends with.
exitStatus(errors, flag) == IF errors > 0 \/ flag THEN 1 ELSE 0

\* After the cleanup range: os.Exit(1) or return from main.
MainExit ==
  /\ Running /\ cpc = "cleanup" /\ toSweep = {}
  /\ osExit(exitStatus(numErrors, signalFlag), "main")
  /\ cpc' = "exited"
  /\ UNCHANGED <<pvars, qvars, wvars, cur, tmpFilenames, numErrors, signalFlag, toSweep,
                 resultClosed, progress, fvars, hvars, rvars>>

\* ------------------------------------------------------------ specification

\* The state main starts its loop in, on an output directory `dir`.
Start(dir) ==
  /\ ppc = "fetch" /\ offset = 0 /\ pending = <<>> /\ emitted = <<>>
  /\ lastPage = NoPage /\ requests = 0 /\ received = 0 /\ shortPage = FALSE
  /\ downloadURLChan = <<>> /\ urlClosed = FALSE
  /\ wpc = [w \in Workers |-> "idle"]
  /\ wres = [w \in Workers |-> NoResult]
  /\ wtmp = [w \in Workers |-> 0]
  /\ cpc = "select" /\ cur = NoResult /\ tmpFilenames = {} /\ numErrors = 0
  /\ signalFlag = FALSE /\ toSweep = {} /\ resultClosed = FALSE
  /\ progress = [n |-> 0, total |-> 0]
  /\ final = dir
  /\ tmpfile = [t \in TmpIds |-> "none"] /\ nextTmp = 1
  /\ exitCode = -1 /\ exitCause = "none"
  /\ handled = [k \in URLs \X Outcomes |-> 0] /\ started = {} /\ delCount = [t \in TmpIds |-> 0]
  /\ sigDropped = FALSE /\ lineTotal = 0 /\ tmpName = [t \in TmpIds |-> ""]

\* A first run starts on a directory that may already hold files with the
\* names of listed items.
Init ==
  /\ listing \in Listings
  /\ \E dir \in [FinalNames -> {"absent", "old"}] :
       /\ \A name \in FinalNames :
            dir[name] = "old" => \E i \in 1..MaxItems : name = LocalFilename(listing[i])
       /\ Start(dir)
  /\ run = 1 /\ firstExit = -1 /\ count1 = 0

Next ==
  \/ PFetchError
  \/ PFetch
  \/ PFail
  \/ PEmit
  \/ \E w \in Workers : WStart(w)
  \/ \E w \in Workers : Notice(w)
  \/ \E w \in Workers : WDownload(w)
  \/ \E w \in Workers : Result(w)
  \/ \E w \in Workers : WDone(w)
  \/ CloseResults
  \/ HandleResult
  \/ ResultsClosed
  \/ Interrupt
  \/ InterruptDropped
  \/ Sweep
  \/ MainExit

Spec == Init /\ [][Next]_vars

\* A run in which no SIGINT is sent, under fair scheduling: the Go scheduler
\* runs every goroutine that can take a step, a blocked channel operation
\* completes once its peer is ready, every HTTP request and file operation
\* returns, and the select of main takes a case that stays ready.
NextLive ==
  \/ PFetchError
  \/ PFetch
  \/ PFail
  \/ PEmit
  \/ \E w \in Workers : WStart(w)
  \/ \E w \in Workers : Notice(w)
  \/ \E w \in Workers : WDownload(w)
  \/ \E w \in Workers : Result(w)
  \/ \E w \in Workers : WDone(w)
  \/ CloseResults
  \/ HandleResult
  \/ ResultsClosed
  \/ Sweep
  \/ MainExit

\* No step of the system is put off for ever: no goroutine has to be
\* preferred over another, since every step brings the run nearer to its end.
Fairness == WF_vars(NextLive)

SpecLive == Init /\ [][NextLive]_vars /\ Fairness

\* The program is run again on the directory the first run left, against the
\* same listing: its count is the one the first run last accepted, or that of
\* the whole listing when it accepted none.  The files the first run published
\* are, to the second, files that were there before it.  Temp files the first
\* run left behind stay out of the way of the second (ioutil.TempFile picks
\* names that are not in use) and are not kept.
Restart ==
  /\ ~Running /\ run = 1
  /\ run' = 2
  /\ firstExit' = exitCode
  /\ count1' = IF lastPage.err = "nil" THEN lastPage.count ELSE MaxItems
  /\ ppc' = "fetch" /\ offset' = 0 /\ pending' = <<>> /\ emitted' = <<>>
  /\ lastPage' = NoPage /\ requests' = 0 /\ received' = 0 /\ shortPage' = FALSE
  /\ downloadURLChan' = <<>> /\ urlClosed' = FALSE
  /\ wpc' = [w \in Workers |-> "idle"]
  /\ wres' = [w \in Workers |-> NoResult]
  /\ wtmp' = [w \in Workers |-> 0]
  /\ cpc' = "select" /\ cur' = NoResult /\ tmpFilenames' = {} /\ numErrors' = 0
  /\ signalFlag' = FALSE /\ toSweep' = {} /\ resultClosed' = FALSE
  /\ progress' = [n |-> 0, total |-> 0]
  /\ tmpfile' = [t \in TmpIds |-> "none"] /\ nextTmp' = 1
  /\ exitCode' = -1 /\ exitCause' = "none"
  /\ handled' = [k \in URLs \X Outcomes |-> 0] /\ started' = {}
  /\ delCount' = [t \in TmpIds |-> 0]
  /\ sigDropped' = FALSE /\ lineTotal' = 0 /\ tmpName' = [t \in TmpIds |-> ""]
  /\ final' = [name \in FinalNames |-> IF final[name] = "absent" THEN "absent" ELSE "old"]
  /\ UNCHANGED listing

NextRerun == Next \/ Restart

SpecRerun == Init /\ [][NextRerun]_vars

\* ------------------------------------------------------------------ claims

\* A temp file is in the output directory under its temp name.
OnDisk(t) == tmpfile[t] \in {"empty", "partial", "complete"}

\* Number of results main has handled for URL u.
Handled(u) ==
  handled[<<u, "error">>] + handled[<<u, "exists">>]
    + handled[<<u, "rename failed">>] + handled[<<u, "ok">>]

\* Number of occurrences of u in a sequence.
Occ(seq, u) == Cardinality({i \in DOMAIN seq : seq[i] = u})

\* The process ended by main returning or calling os.Exit after its cleanup.
MainEnded == exitCause = "main"

\* C1 (no partial publish): a file is in the output directory under a final
\* name only if it was there before the run or main renamed a temp file to it
\* whose download had completed without error; a temp file whose transfer
\* failed or is still in flight is never renamed.
NoPartialPublish ==
  /\ \A name \in FinalNames :
       /\ final[name] \in {"absent", "old", "complete"}
       /\ final[name] = "complete" =>
            \E u \in URLs : LocalFilename(u) = name /\ handled[<<u, "ok">>] > 0
  /\ \A t \in TmpIds :
       tmpfile[t] = "renamed" =>
         /\ t \in started
         /\ \A w \in Workers : wtmp[w] # t

\* C1 witness: one file is published while another download has failed and
\* left a partial temp file.
NoPartialPublishWitness ==
  /\ \E name \in FinalNames : final[name] = "complete"
  /\ \E t \in TmpIds : tmpfile[t] = "partial"

\* C2 (tracked-set invariant): every temp file of this run that is in the
\* output directory under its temp name is an entry of tmpFilenames.
TrackedSetInvariant ==
  \A t \in TmpIds : OnDisk(t) => t \in tmpFilenames

\* C3 (cleanup completeness): when the process exits after an interrupt, no
\* temp file was the object of two deletions, and every temp file of the run
\* still in the directory is one whose deletion was attempted and failed.
CleanupComplete ==
  (MainEnded /\ signalFlag) =>
    /\ \A t \in TmpIds : delCount[t] <= 1
    /\ \A t \in TmpIds : OnDisk(t) => delCount[t] = 1

\* C4 (fatal paginator error): when the process exits on an error of
\* processIndex, the cleanup has run: every temp file in tmpFilenames was deleted.
FatalErrorCleansUp ==
  exitCause = "protocol" => \A t \in tmpFilenames : tmpfile[t] = "removed"

\* A page response whose limit or offset is not the requested one.
Mismatch(pg) ==
  pg.err \notin {"none", "fetch"} /\ (pg.limit # ooniAPILimit \/ pg.offset # pg.req)

\* C5 (fatal consistency checks): when a page's limit or offset differs from
\* the request, the process has exited with status 1 on the protocol error
\* and the URLs emitted are those of the earlier pages only; and once the
\* process has exited no temp file is created and no transfer is started,
\* whatever is left in downloadURLChan.
FatalConsistencyChecks ==
  /\ [](Mismatch(lastPage) =>
          /\ exitCode = 1 /\ exitCause = "protocol"
          /\ Len(emitted) = lastPage.req
          /\ pending = <<>>)
  /\ [][exitCause = "protocol" =>
          (started' = started /\ nextTmp' = nextTmp /\ exitCause' = "protocol"
           /\ downloadURLChan' = downloadURLChan)]_vars

\* C5 witness: the second page is rejected for its limit or offset while a
\* URL of the first page is still waiting in downloadURLChan.
FatalConsistencyWitness ==
  /\ requests = 2 /\ Mismatch(lastPage)
  /\ exitCause = "protocol"
  /\ downloadURLChan # <<>>

\* The count the latest page reported.
LastCount == lastPage.count

\* The latest page was accepted.
Accepted == lastPage.err = "nil"

\* C6 (pagination): the URLs written to downloadURLChan, followed by those of
\* the current page still to be written, are exactly the items of the accepted
\* pages, in page order; every page is requested at the offset equal to the
\* number of items received before it; and processIndex ends normally
\* (closing the channel) exactly when that offset equals the latest count.
PaginationExact ==
  /\ emitted \o pending = SubSeq(listing, 1, received)
  /\ requests > 0 =>
       lastPage.req = received - (IF Accepted THEN lastPage.n ELSE 0)
  /\ (requests = 0 \/ Accepted) => offset = received
  /\ urlClosed <=> ppc = "done"
  /\ ppc = "done" =>
       /\ Accepted /\ pending = <<>>
       /\ offset = LastCount /\ Len(emitted) = offset
  /\ (ppc # "done" /\ pending = <<>> /\ Accepted) => offset # LastCount

\* C6 witness: pagination ended normally after two pages and two URLs.
PaginationExactWitness ==
  ppc = "done" /\ requests = 2 /\ Len(emitted) = 2

NoDownloads ==
  /\ nextTmp = 1 /\ started = {}
  /\ \A u \in URLs : handled[<<u, "ok">>] = 0 /\ handled[<<u, "rename failed">>] = 0

\* C8 as stated: a second run on the directory the first run left performs no
\* download and reports every item as exists.
SecondRunNoDownloads ==
  run = 2 => (NoDownloads /\ \A u \in URLs : handled[<<u, "error">>] = 0)

\* C8 as amended: a second run after a first run that exited with status 0
\* performs no download, and every item is reported as exists.
SecondRunAfterCleanRun ==
  (run = 2 /\ firstExit = 0) =>
    /\ NoDownloads
    /\ \A u \in URLs : handled[<<u, "error">>] = 0
    /\ \A w \in Workers : wres[w].Err = "nil"
    /\ cur.Err = "nil"
    /\ (MainEnded /\ ~signalFlag) =>
         /\ Len(emitted) = count1
         /\ \A u \in URLs : handled[<<u, "exists">>] = Occ(emitted, u)

\* C8 witness: the second run after a clean first run ended, two items
\* reported as exists.
SecondRunWitness ==
  /\ run = 2 /\ firstExit = 0 /\ exitCode = 0
  /\ progress.n = 2

\* A deletion of the cleanup failed.
DeletionFailed == \E t \in TmpIds : delCount[t] > 0 /\ tmpfile[t] # "removed"

\* No per-item error, no failed deletion, no protocol error and no SIGINT.
FullyClean ==
  /\ MainEnded
  /\ \A u \in URLs : handled[<<u, "error">>] = 0 /\ handled[<<u, "rename failed">>] = 0
  /\ ~DeletionFailed
  /\ ~signalFlag /\ ~sigDropped

\* C9 (exit status): the process exits with status 0 if and only if the run
\* was fully clean.
ExitStatusReflectsRun ==
  ~Running => (exitCode = 0 <=> FullyClean)

\* C10 (one result per URL): every URL written to downloadURLChan is in the
\* channel, with a worker, with main, or handled, exactly once; and when main
\* ends without an interrupt it has handled one result for every URL emitted.
OneResultPerURL ==
  /\ \A u \in URLs :
       Occ(emitted, u) =
         Occ(downloadURLChan, u)
         + Cardinality({w \in Workers : wpc[w] \in {"notify", "xfer", "send"} /\ wres[w].URL = u})
         + (IF cur.URL = u THEN 1 ELSE 0)
         + Handled(u)
  /\ (MainEnded /\ ~signalFlag) =>
       /\ progress.n = Len(emitted)
       /\ \A u \in URLs : Handled(u) = Occ(emitted, u)

\* C10 witness: an uninterrupted run ended after handling two results.
OneResultPerURLWitness ==
  MainEnded /\ ~signalFlag /\ Len(emitted) = 2 /\ progress.n = 2

\* Main has received the name of temp file t on tmpFilenameChan: the name is
\* in tmpFilenames, or was until the rename of t.
Noticed(t) == t \in tmpFilenames \/ tmpfile[t] = "renamed"

\* C11 (temp before transfer): a worker is in the transfer of a download, and
\* a transfer has started, only for a temp file that was created and whose
\* name main has received; at the step that starts a transfer the name is
\* already in tmpFilenames.  This holds whether the transfer succeeds or fails.
TempBeforeTransfer ==
  /\ [](\A t \in started : tmpfile[t] # "none" /\ Noticed(t))
  /\ [](\A w \in Workers :
          wpc[w] = "xfer" => (tmpfile[wtmp[w]] # "none" /\ wtmp[w] \in tmpFilenames))
  /\ [][\A t \in started' \ started :
          tmpfile[t] # "none" /\ t \in tmpFilenames]_vars

\* C11 witness: a transfer that failed, and one that succeeded, each on a
\* temp file main had been told of.
TempBeforeTransferWitness ==
  \E t1, t2 \in started :
    /\ tmpfile[t1] = "partial" /\ t1 \in tmpFilenames
    /\ tmpfile[t2] = "complete" /\ t2 \in tmpFilenames

\* C12 (ownership of rename and deletion): a temp file is renamed only by
\* main handling the result that names it, and deleted only by the cleanup of
\* main, in steps that leave the workers as they are; a final name changes
\* only in a step of main; a renamed or deleted temp file stays so; no temp
\* file is the object of two deletions, nor of a rename and a deletion.
OwnershipOfRenameAndDelete ==
  /\ [](\A t \in TmpIds :
          /\ delCount[t] <= 1
          /\ tmpfile[t] = "renamed" => delCount[t] = 0
          /\ tmpfile[t] = "removed" => delCount[t] = 1)
  /\ [][\A t \in TmpIds :
          /\ (tmpfile'[t] = "renamed" /\ tmpfile[t] # "renamed") =>
               (cpc = "handling" /\ cur.TmpFilename = t /\ wvars' = wvars)
          /\ (tmpfile'[t] = "removed" /\ tmpfile[t] # "removed") =>
               (cpc = "cleanup" /\ t \in toSweep /\ wvars' = wvars)
          /\ tmpfile[t] \in {"renamed", "removed"} => tmpfile'[t] = tmpfile[t]]_vars
  /\ [][final' # final => (cpc = "handling" /\ wvars' = wvars)]_vars

\* C12 witness: the process ended with one temp file renamed and another,
\* left by a failed transfer, deleted by the cleanup.
OwnershipWitness ==
  /\ MainEnded
  /\ \E t1, t2 \in TmpIds :
       /\ tmpfile[t1] = "renamed"
       /\ tmpfile[t2] = "removed" /\ delCount[t2] = 1 /\ t2 \in started

\* Number of results main has handled as errors: results carrying an error,
\* and results whose rename failed.
RECURSIVE ErrorsAmong(_)
ErrorsAmong(k) ==
  IF k = 0 THEN 0
  ELSE handled[<<URLTable[k].url, "error">>] + handled[<<URLTable[k].url, "rename failed">>]
       + ErrorsAmong(k - 1)
ErrorsHandled == ErrorsAmong(Len(URLTable))

\* C13 (per-item errors are absorbed): while main is in its loop numErrors is
\* the number of results handled as errors; handling a result that carries an
\* error counts it, prints its line, and leaves main in its loop, the process
\* running and the workers and downloadURLChan as they were; no URL gets more
\* results than it was emitted times; and an uninterrupted run that ends has
\* handled one result for every URL emitted, errors or not.
PerItemErrorsAbsorbed ==
  /\ [](cpc \in {"select", "handling"} => numErrors = ErrorsHandled)
  /\ [](\A u \in URLs : Handled(u) <= Occ(emitted, u))
  /\ []((MainEnded /\ ~signalFlag) =>
          (ppc = "done" /\ \A u \in URLs : Handled(u) = Occ(emitted, u)))
  /\ [][(cpc = "handling" /\ cpc' # "handling" /\ handleKind(cur) = "error") =>
          /\ numErrors' = numErrors + 1
          /\ progress'.n = progress.n + 1
          /\ handled' = record(handled, cur.URL, "error")
          /\ cpc' = "select" /\ exitCode' = exitCode
          /\ wvars' = wvars /\ qvars' = qvars /\ fvars' = fvars]_vars

\* C13 witness: an uninterrupted run ended with status 1 after one item
\* failed and a later item was published.
PerItemErrorsWitness ==
  /\ MainEnded /\ ~signalFlag /\ exitCode = 1
  /\ Len(emitted) = 2
  /\ handled[<<emitted[1], "error">>] = 1
  /\ handled[<<emitted[2], "ok">>] = 1

\* C14 (interrupt handling): main sets signalFlag in a step that takes it from
\* the select straight to the cleanup, whatever the workers are doing and
\* without a step of theirs; from then on main is in the cleanup or has
\* exited, and no result is received or handled, no name is added to or
\* removed from tmpFilenames, no temp file is renamed and no final name changes.
InterruptHandling ==
  /\ [](signalFlag => cpc \in {"cleanup", "exited"})
  /\ [][(~signalFlag /\ signalFlag') =>
          /\ cpc = "select" /\ cpc' = "cleanup"
          /\ toSweep' = tmpFilenames
          /\ wvars' = wvars /\ fvars' = fvars]_vars
  /\ [][signalFlag =>
          /\ signalFlag'
          /\ cur' = cur /\ handled' = handled /\ progress'.n = progress.n
          /\ tmpFilenames' = tmpFilenames
          /\ final' = final
          /\ \A t \in TmpIds : tmpfile'[t] = "renamed" => tmpfile[t] = "renamed"]_vars

\* C14 witness: the process ended after an interrupt while one worker was in
\* a transfer and another had a finished download to report.
InterruptWitness ==
  /\ MainEnded /\ signalFlag
  /\ \E w1, w2 \in Workers :
       /\ wpc[w1] = "xfer"
       /\ wpc[w2] = "send" /\ wres[w2].Err = "nil" /\ wtmp[w2] \in TmpIds
       /\ tmpfile[wtmp[w2]] = "removed"

\* A URL that parses and whose path has no final segment: the path is empty
\* or ends in a slash.
NoFinalSegment(u) ==
  urlParse(u).ok /\ (Len(urlParse(u).path) = 0 \/ urlParse(u).slash)

\* C15 (no final segment): a URL whose path has no final segment is never
\* reported as exists and never downloaded: no worker holds an exists result
\* or a temp file for it, and main handles no result for it as exists, as a
\* rename or as a failed rename.
NoFinalSegmentIsError ==
  \A u \in {v \in URLs : NoFinalSegment(v)} :
    /\ \A w \in Workers : wres[w].URL = u => (~wres[w].Exists /\ wtmp[w] = 0)
    /\ handled[<<u, "exists">>] = 0
    /\ handled[<<u, "ok">>] = 0
    /\ handled[<<u, "rename failed">>] = 0

\* No result of the run was handled as exists or as an error.
NoneExistsNoneFails ==
  \A u \in URLs :
    handled[<<u, "exists">>] = 0 /\ handled[<<u, "error">>] = 0
      /\ handled[<<u, "rename failed">>] = 0

\* Number of files the run has put in the output directory under a final name.
FilesPublished == Cardinality({name \in FinalNames : final[name] = "complete"})

\* C16 (progress lines and published files): when an uninterrupted run ends,
\* pagination has ended normally, one progress line was printed per emitted
\* URL, the last of them shows completed equal to total, total being the
\* count of the last page, and when no item existed locally and none failed
\* the number of files published equals that count.
ProgressAndPublished ==
  (MainEnded /\ ~signalFlag) =>
    /\ ppc = "done"
    /\ progress.n = Len(emitted)
    /\ progress.total = LastCount
    /\ progress.n > 0 => (lineTotal = progress.n /\ lineTotal = LastCount)
    /\ NoneExistsNoneFails => FilesPublished = LastCount

\* C17 (frame of the handling of a result): handling a result with an error
\* or with Exists set changes neither tmpFilenames nor any file; a rename that
\* fails leaves the temp file in tmpFilenames and the files as they were, and
\* counts an error; a rename that succeeds removes exactly that temp file
\* from tmpFilenames and counts nothing; and a name leaves tmpFilenames in no
\* other step.
ResultHandlingFrame ==
  /\ [][(cpc = "handling" /\ cpc' = "select") =>
          /\ handleKind(cur) \in {"error", "exists"} =>
               (tmpFilenames' = tmpFilenames /\ final' = final /\ tmpfile' = tmpfile)
          /\ handleKind(cur) = "rename" =>
               /\ cur.TmpFilename \in tmpFilenames
               /\ \/ /\ tmpfile'[cur.TmpFilename] = "renamed"
                     /\ final'[cur.LocalFilename] = tmpfile[cur.TmpFilename]
                     /\ tmpFilenames' = tmpFilenames \ {cur.TmpFilename}
                     /\ numErrors' = numErrors
                  \/ /\ tmpfile' = tmpfile /\ final' = final
                     /\ tmpFilenames' = tmpFilenames
                     /\ numErrors' = numErrors + 1]_vars
  /\ [][~(tmpFilenames \subseteq tmpFilenames') =>
          /\ cpc = "handling" /\ handleKind(cur) = "rename"
          /\ tmpfile[cur.TmpFilename] # "renamed"
          /\ tmpfile'[cur.TmpFilename] = "renamed"
          /\ tmpFilenames \ tmpFilenames' = {cur.TmpFilename}]_vars

\* C17 witness: one rename failed and its temp file is still in tmpFilenames,
\* another succeeded and its temp file is not.
ResultHandlingWitness ==
  /\ cpc = "select"
  /\ \E u \in URLs : handled[<<u, "rename failed">>] = 1
  /\ \E t1, t2 \in TmpIds :
       /\ tmpfile[t1] = "complete" /\ t1 \in tmpFilenames
       /\ \A w \in Workers : wtmp[w] # t1
       /\ tmpfile[t2] = "renamed" /\ t2 \notin tmpFilenames

\* The latest page has the limit and the offset requested.
Consistent == lastPage.limit = ooniAPILimit /\ lastPage.offset = lastPage.req

\* C18 (inconsistent page rejected before emission): a page with the limit
\* and offset requested but no item while its count is positive, or with
\* more items than its count leaves room for, is an error; on such an error
\* the process has exited with status 1, or processIndex has returned the
\* error and the process is about to (or an interrupt has ended it with
\* status 1 first), and the URLs emitted are those of the earlier pages only; and the URLs
\* emitted, with those of the current page still to be emitted, are never
\* more than the count of the latest accepted page.
InconsistentPageRejected ==
  /\ (requests > 0 /\ lastPage.err # "fetch" /\ Consistent) =>
       /\ (lastPage.count > 0 /\ lastPage.n = 0) => lastPage.err = "zero results"
       /\ (lastPage.n > 0 /\ lastPage.req + lastPage.n > lastPage.count) =>
            lastPage.err = "offset exceeds count"
  /\ lastPage.err \in {"zero results", "offset exceeds count"} =>
       /\ \/ exitCode = 1 /\ exitCause = "protocol"
          \/ /\ lastPage.err = "offset exceeds count" /\ ppc = "failed"
             /\ Running \/ (exitCode = 1 /\ signalFlag)
       /\ pending = <<>> /\ Len(emitted) = lastPage.req
       /\ ~urlClosed
  /\ Accepted => Len(emitted) + Len(pending) <= LastCount

\* C18 witness: the second page is rejected because its item takes the
\* offset past its count, after the URL of the first page was emitted.
InconsistentPageWitness ==
  /\ requests = 2 /\ lastPage.err = "offset exceeds count"
  /\ Len(emitted) = 1 /\ lastPage.n > 0

\* C19 (backpressure): downloadURLChan never holds more than ooniAPILimit
\* URLs, and what it holds are the latest URLs emitted, in order; while it is
\* full and processIndex has a URL to write, processIndex does not move (it
\* emits nothing, drops nothing, fetches nothing); and as soon as there is
\* room the write can go through.
Backpressure ==
  /\ [](Len(downloadURLChan) <= ooniAPILimit)
  /\ [](downloadURLChan =
          SubSeq(emitted, Len(emitted) - Len(downloadURLChan) + 1, Len(emitted)))
  /\ [][(ppc = "emit" /\ Len(downloadURLChan) = ooniAPILimit) =>
          (ppc' = "emit" /\ emitted' = emitted /\ pending' = pending
           /\ offset' = offset /\ requests' = requests)]_vars
  /\ []((Running /\ ppc = "emit" /\ Len(downloadURLChan) < ooniAPILimit) =>
          (pending # <<>> /\ ENABLED PEmit))

\* C19 witness: processIndex has the URL of the second page to write while
\* downloadURLChan is full of URLs no worker has taken yet.
BackpressureWitness ==
  /\ Running /\ ppc = "emit" /\ requests = 2
  /\ Len(downloadURLChan) = ooniAPILimit
  /\ \A w \in Workers : wpc[w] = "idle"

\* C20 (completion ordering): resultChan is closed only when processIndex has
\* ended normally and closed downloadURLChan, the channel is empty, every
\* worker has returned and every result was received by main; and main is
\* past its loop without an interrupt only when resultChan is closed and it
\* has handled a result for every URL emitted.
CompletionOrdering ==
  /\ resultClosed =>
       /\ ppc = "done" /\ urlClosed /\ downloadURLChan = <<>>
       /\ \A w \in Workers : wpc[w] = "done" /\ wres[w] = NoResult
       /\ \A u \in URLs :
            Handled(u) + (IF cur.URL = u THEN 1 ELSE 0) = Occ(emitted, u)
  /\ (cpc \in {"cleanup", "exited"} /\ ~signalFlag) =>
       /\ resultClosed /\ cur = NoResult
       /\ progress.n = Len(emitted)
       /\ \A u \in URLs : Handled(u) = Occ(emitted, u)

\* C20 witness: main enters its cleanup on the closing of resultChan after
\* two results, while the process is running.
CompletionOrderingWitness ==
  /\ Running /\ cpc = "cleanup" /\ ~signalFlag
  /\ resultClosed /\ progress.n = 2

\* Temp files whose deletion was attempted and failed.
FailedDeletions == {t \in TmpIds : delCount[t] > 0 /\ tmpfile[t] # "removed"}

\* C21 (the sweep completes): during the cleanup each entry of tmpFilenames
\* has had one deletion attempt if the range has visited it and none if not,
\* and no other temp file has had any; a deletion that fails counts one error
\* and leaves main in the cleanup with the other entries still to visit; and
\* when main ends every entry has had exactly one attempt and numErrors is
\* the number of results handled as errors plus that of failed deletions.
SweepCompletes ==
  /\ [](cpc = "select" => \A t \in TmpIds : delCount[t] = 0)
  /\ [](cpc \in {"cleanup", "exited"} =>
          /\ toSweep \subseteq tmpFilenames
          /\ \A t \in TmpIds :
               delCount[t] = (IF t \in tmpFilenames \ toSweep THEN 1 ELSE 0)
          /\ numErrors = ErrorsHandled + Cardinality(FailedDeletions))
  /\ [](MainEnded => \A t \in tmpFilenames : delCount[t] = 1)
  /\ [][\A t \in TmpIds :
          (delCount'[t] # delCount[t] /\ tmpfile'[t] # "removed") =>
            /\ numErrors' = numErrors + 1
            /\ cpc' = "cleanup" /\ exitCode' = exitCode
            /\ toSweep' = toSweep \ {t}]_vars

\* C21 witness: main ended after a cleanup of two entries in which one
\* deletion failed and the other succeeded.
SweepCompletesWitness ==
  /\ MainEnded
  /\ \E t1, t2 \in tmpFilenames :
       /\ delCount[t1] = 1 /\ tmpfile[t1] # "removed"
       /\ delCount[t2] = 1 /\ tmpfile[t2] = "removed"

\* C22 (progress): in a fair run without interrupt no state of the running
\* process is without a next step; the process always ends; once processIndex
\* has ended normally main ends; and when the process has ended after
\* processIndex ended normally, it is main that ended, every worker has
\* returned, none is left waiting to hand over a temp file name or a result,
\* and main has handled a result for every URL emitted.
ProgressNoDeadlock ==
  /\ [](Running => ENABLED NextLive)
  /\ []((~Running /\ ppc = "done") =>
          /\ MainEnded
          /\ \A w \in Workers : wpc[w] = "done"
          /\ \A u \in URLs : Handled(u) = Occ(emitted, u))
  /\ (ppc = "done") ~> MainEnded
  /\ <>(~Running)

\* C22 witness: main ended a run in which processIndex ended normally and
\* two downloads were announced, reported and published.
ProgressWitness ==
  /\ MainEnded /\ ppc = "done"
  /\ \A w \in Workers : wpc[w] = "done"
  /\ Cardinality({t \in TmpIds : tmpfile[t] = "renamed"}) = 2

\* Number of results main has handled with a failed rename.
RECURSIVE RenameFailedAmong(_)
RenameFailedAmong(k) ==
  IF k = 0 THEN 0
  ELSE handled[<<URLTable[k].url, "rename failed">>] + RenameFailedAmong(k - 1)

\* Temp files created in this run and not renamed.
Unpublished == {t \in TmpIds : t < nextTmp /\ tmpfile[t] # "renamed"}

\* C23 (notice before result): a result a worker is sending, and the result
\* main is handling, names a temp file only if the name is in tmpFilenames,
\* and was there in the state before main received the result; and when main
\* enters its cleanup without an interrupt, tmpFilenames is exactly the temp
\* files created and not renamed, each of them left by a failed transfer
\* (partial) or by a failed rename (complete, as many as renames failed).
NoticeBeforeResult ==
  /\ [](cur.TmpFilename # 0 => cur.TmpFilename \in tmpFilenames)
  /\ [](\A w \in Workers :
          (wpc[w] = "send" /\ wres[w].TmpFilename # 0) =>
            wres[w].TmpFilename \in tmpFilenames)
  /\ [][(cur' # cur /\ cur'.TmpFilename # 0) => cur'.TmpFilename \in tmpFilenames]_vars
  /\ []((cpc = "cleanup" /\ ~signalFlag /\ toSweep = tmpFilenames) =>
          /\ tmpFilenames = Unpublished
          /\ \A t \in tmpFilenames : tmpfile[t] \in {"partial", "complete"}
          /\ Cardinality({t \in tmpFilenames : tmpfile[t] = "complete"})
               = RenameFailedAmong(Len(URLTable)))

\* C23 witness: main enters its cleanup without an interrupt with two names
\* in tmpFilenames, one of a failed transfer and one of a failed rename.
NoticeBeforeResultWitness ==
  /\ cpc = "cleanup" /\ ~signalFlag /\ toSweep = tmpFilenames
  /\ \E t1, t2 \in tmpFilenames : tmpfile[t1] = "partial" /\ tmpfile[t2] = "complete"

\* C24 (one transfer and one rename per local name): no two temp files whose
\* transfer has started were created for the same local name; no two temp
\* files were renamed to the same name; and a step that renames a temp file
\* finds no file under the final name it was created for.
OneTransferPerName ==
  /\ [](\A t1, t2 \in started : tmpName[t1] = tmpName[t2] => t1 = t2)
  /\ [](\A t1, t2 \in {t \in TmpIds : tmpfile[t] = "renamed"} :
          tmpName[t1] = tmpName[t2] => t1 = t2)
  /\ [][\A t \in TmpIds :
          (tmpfile[t] # "renamed" /\ tmpfile'[t] = "renamed")
            => final[tmpName[t]] = "absent"]_vars

\* C25 (progress lines stay within the total): whenever a progress line has
\* been printed, the counter it shows is at most the total it shows, and at
\* most the total the paginator stored last.
ProgressLineWithinTotal ==
  /\ [](progress.n > 0 => progress.n <= lineTotal)
  /\ [][progress'.n # progress.n => progress'.n <= progress'.total]_vars

====
